---- MODULE Spec2Model ----
(***************************************************************************)
(* The cost-aware LLM router of NuiFlo WorkForce                           *)
(* (backend/app/core/intelligent_router.py) and the per-agent cost         *)
(* tracker built on it (backend/app/services/hybrid_crew_extensions.py).   *)
(*                                                                         *)
(* Python values carry their type: the code mixes int, float and           *)
(* decimal.Decimal, and Python refuses float * Decimal with a TypeError.   *)
(* A number is [t, v, e] and stands for v * 10^(-e).  A raised exception   *)
(* is [t |-> "raise", exc |-> <class name>].                               *)
(***************************************************************************)
EXTENDS Integers, Sequences, FiniteSets, TLC

\* ------------------------------------------------------------- bounds
\* Most complexity keywords / simplicity keywords one prompt contains.
MaxComplexKw == 3
MaxSimpleKw == 2
\* Prompts have 0, 500, ..., 500 * MaxWords words.
MaxWords == 1

\* ------------------------------------------------------ Python values
None == [t |-> "None"]

PyInt(n) == [t |-> "int", v |-> n, e |-> 0]

PyFloat(v, e) == [t |-> "float", v |-> v, e |-> e]

Decimal(v, e) == [t |-> "Decimal", v |-> v, e |-> e]

Raise(kind) == [t |-> "raise", exc |-> kind]

IsRaise(x) == x.t = "raise"

IsNum(x) == x.t \in {"int", "float", "Decimal"}

Max(a, b) == IF a >= b THEN a ELSE b

Min(a, b) == IF a <= b THEN a ELSE b

RECURSIVE Pow10(_)
Pow10(k) == IF k <= 0 THEN 1 ELSE 10 * Pow10(k - 1)

\* The integer x.v * 10^(e - x.e): x at the scale 10^(-e), for e >= x.e.
Scaled(x, e) == x.v * Pow10(e - x.e)

\* a <= b on numbers; Python compares Decimal with Decimal, int and float.
NumLeq(a, b) == LET e == Max(a.e, b.e) IN Scaled(a, e) <= Scaled(b, e)

NumEq(a, b) == LET e == Max(a.e, b.e) IN Scaled(a, e) = Scaled(b, e)

\* bool(x): None and a zero number are falsy.
Truthy(x) == x.t # "None" /\ x.v # 0

\* a * b.  float * Decimal (either order) is
\* "TypeError: unsupported operand type(s) for *: 'float' and 'decimal.Decimal'".
PyMul(a, b) ==
    IF {a.t, b.t} = {"float", "Decimal"}
    THEN Raise("TypeError")
    ELSE [t |-> IF "Decimal" \in {a.t, b.t} THEN "Decimal"
                ELSE IF "float" \in {a.t, b.t} THEN "float" ELSE "int",
          v |-> a.v * b.v, e |-> a.e + b.e]

\* a / 1000: true division of an int or a float gives a float.
PyDiv1000(a) ==
    [t |-> IF a.t = "Decimal" THEN "Decimal" ELSE "float", v |-> a.v, e |-> a.e + 3]

\* a + b and a - b; a float and a Decimal do not add either.
PyAdd(a, b) ==
    IF {a.t, b.t} = {"float", "Decimal"}
    THEN Raise("TypeError")
    ELSE LET e == Max(a.e, b.e) IN
         [t |-> IF "Decimal" \in {a.t, b.t} THEN "Decimal"
                ELSE IF "float" \in {a.t, b.t} THEN "float" ELSE "int",
          v |-> Scaled(a, e) + Scaled(b, e), e |-> e]

PySub(a, b) == PyAdd(a, [b EXCEPT !.v = 0 - b.v])

\* --------------------------------------------------------------- enums
ComplexityLevel == {"simple", "medium", "complex", "specialized"}

LLMProvider == {"ollama_mistral", "openai_gpt_3.5_turbo", "openai_gpt_4",
                "anthropic_claude_3_haiku"}

QualityPreference == {"fast", "balanced", "premium"}

\* ------------------------------------------------- ComplexityAnalyzer
\* A prompt, as far as the code looks at it: its length band (0: at most 500
\* characters, 1: 501..1000, 2: more than 1000), how many of the 17 complexity
\* keywords and of the 10 simplicity keywords occur in it, whether a
\* programming term and whether a creative verb occurs, and len(prompt.split()).
Prompts ==
    { p \in [len : 0..2, complex : 0..MaxComplexKw, simple : 0..MaxSimpleKw,
             code : BOOLEAN, creative : BOOLEAN,
             words : {w * 500 : w \in 0..MaxWords}] :
        (p.complex + p.simple > 0 \/ p.code \/ p.creative) => p.words > 0 }

\* Scores are Python floats.  A score is [n, d]: n is the decimal value in
\* thousandths and d the sign of (the double the code holds) - (the double
\* nearest n/1000).  The two sets list the prompts (len, complex, simple, code,
\* creative) whose sum of 0.2/0.1, 0.15, -0.1, 0.2, 0.1, added in the code's
\* order in IEEE-754 double arithmetic, lands just below 0.2, 0.5 or 0.8, or
\* just above 0.3: d matters at these comparisons only.
RoundsBelowThreshold ==
    { <<0,2,1,0,0>>, <<0,2,2,0,1>>, <<0,2,3,1,0>>, <<0,2,4,1,1>>, <<0,4,1,1,1>>,
      <<0,8,4,0,0>>, <<0,8,5,0,1>>, <<0,8,7,1,1>>, <<0,10,7,0,0>>, <<0,10,8,0,1>>,
      <<0,10,9,1,0>>, <<0,10,10,0,0>>, <<0,10,10,1,1>>, <<0,12,10,0,0>>, <<1,8,5,0,0>>,
      <<1,8,6,0,1>>, <<1,8,7,1,0>>, <<1,8,8,0,0>>, <<1,8,8,1,1>>, <<1,8,9,0,1>>,
      <<1,8,10,1,0>>, <<1,10,8,0,0>>, <<1,10,9,0,1>>, <<1,10,10,1,0>>, <<2,2,0,1,1>>,
      <<2,8,6,0,0>>, <<2,8,7,0,1>>, <<2,8,8,1,0>>, <<2,8,9,0,0>>, <<2,8,9,1,1>>,
      <<2,8,10,0,1>>, <<2,10,9,0,0>>, <<2,10,10,0,1>> }

RoundsAboveTrigger ==
    { <<0,0,0,1,1>>, <<0,4,3,0,0>>, <<0,4,4,0,1>>, <<0,4,5,1,0>>, <<0,4,6,1,1>>,
      <<0,6,6,0,0>>, <<0,6,7,0,1>>, <<0,6,8,1,0>>, <<0,6,9,1,1>>, <<0,8,9,0,0>>,
      <<0,8,10,0,1>>, <<1,0,0,1,0>>, <<1,0,1,1,1>>, <<1,2,1,0,0>>, <<1,2,2,0,1>>,
      <<1,2,3,1,0>>, <<1,2,4,1,1>>, <<1,4,4,0,0>>, <<1,4,5,0,1>>, <<1,4,6,1,0>>,
      <<1,4,7,1,1>>, <<1,6,7,0,0>>, <<1,6,8,0,1>>, <<1,6,9,1,0>>, <<1,6,10,1,1>>,
      <<2,0,0,0,1>>, <<2,0,1,1,0>>, <<2,0,2,1,1>>, <<2,2,2,0,0>>, <<2,2,3,0,1>>,
      <<2,2,4,1,0>>, <<2,2,5,1,1>>, <<2,4,5,0,0>>, <<2,4,6,0,1>>, <<2,4,7,1,0>>,
      <<2,4,8,1,1>>, <<2,6,8,0,0>>, <<2,6,9,0,1>>, <<2,6,10,1,0>> }

Score(n, d) == [t |-> "float", n |-> n, d |-> d]

\* x < T/1000 and x > T/1000, T/1000 being the double nearest it.
FloatLt(x, T) == x.n < T \/ (x.n = T /\ x.d < 0)

FloatGt(x, T) == x.n > T \/ (x.n = T /\ x.d > 0)

heuristic_complexity_score(p) ==
    LET raw == (IF p.len = 2 THEN 200 ELSE IF p.len = 1 THEN 100 ELSE 0)
               + 150 * p.complex - 100 * p.simple
               + (IF p.code THEN 200 ELSE 0)
               + (IF p.creative THEN 100 ELSE 0)
        key == <<p.len, p.complex, p.simple,
                 IF p.code THEN 1 ELSE 0, IF p.creative THEN 1 ELSE 0>>
    IN  Score(Max(0, Min(1000, raw)),
              IF key \in RoundsBelowThreshold THEN 0 - 1
              ELSE IF key \in RoundsAboveTrigger THEN 1 ELSE 0)

\* What the classification request to the local model comes to: the POST times
\* out, raise_for_status() raises, the body is not the expected JSON, or the
\* reply text is searched for its first number (thousandths; NoNumber when the
\* pattern finds none).  The replies' numbers are such that the blend's double
\* rounding never crosses 0.2, 0.5 or 0.8 on its own.
NoNumber == 0 - 1

LlmOutcomes ==
    { [kind |-> "timeout"], [kind |-> "http_status_error"], [kind |-> "bad_payload"] }
    \cup { [kind |-> "text", number |-> x] : x \in {NoNumber, 0, 500, 750, 1000, 7000} }

llm_complexity_analysis(reply) ==
    CASE reply.kind = "timeout" -> Raise("TimeoutException")
      [] reply.kind = "http_status_error" -> Raise("HTTPStatusError")
      [] reply.kind = "bad_payload" -> Raise("KeyError")
      [] OTHER -> IF reply.number # NoNumber
                  THEN Score(Max(0, Min(1000, reply.number)), 0)
                  ELSE Score(500, 0)

\* The blend with the two weights exchanged.
Blend_swapped(h, m) == Score((6 * h.n + 4 * m.n) \div 10, h.d)

\* (heuristic_score * 0.4) + (llm_score * 0.6)
Blend(h, m) == Score((4 * h.n + 6 * m.n) \div 10, h.d)

\* ScoreToLevel with <= for <.
ScoreToLevel_inclusive(final_score) ==
    IF ~FloatGt(final_score, 200) THEN "simple"
    ELSE IF ~FloatGt(final_score, 500) THEN "medium"
    ELSE IF ~FloatGt(final_score, 800) THEN "complex"
    ELSE "specialized"

ScoreToLevel(final_score) ==
    IF FloatLt(final_score, 200) THEN "simple"
    ELSE IF FloatLt(final_score, 500) THEN "medium"
    ELSE IF FloatLt(final_score, 800) THEN "complex"
    ELSE "specialized"

\* analyze_complexity without its try/except around the classification call.
analyze_complexity_no_except(ollama_available, p, reply) ==
    LET h == heuristic_complexity_score(p)
        asks == ollama_available /\ FloatGt(h, 300)
        llm == llm_complexity_analysis(reply)
        final == IF asks /\ ~IsRaise(llm) THEN Blend(h, llm) ELSE h
    IN  IF asks /\ IsRaise(llm)
        THEN [t |-> "raise", exc |-> llm.exc, value |-> None, heuristic_score |-> h,
              llm_called |-> asks, llm_requests |-> IF asks THEN 1 ELSE 0,
              llm_failed |-> TRUE, final_score |-> h]
        ELSE [t |-> "return", exc |-> "", value |-> ScoreToLevel(final),
              heuristic_score |-> h, llm_called |-> asks,
              llm_requests |-> IF asks THEN 1 ELSE 0, llm_failed |-> FALSE,
              final_score |-> final]

\* analyze_complexity with ">= 0.3" for "> 0.3" in the trigger.
analyze_complexity_inclusive_trigger(ollama_available, p, reply) ==
    LET h == heuristic_complexity_score(p)
        asks == ollama_available /\ ~FloatLt(h, 300)
        llm == llm_complexity_analysis(reply)
        final == IF asks /\ ~IsRaise(llm) THEN Blend(h, llm) ELSE h
    IN  [t |-> "return", exc |-> "", value |-> ScoreToLevel(final),
         heuristic_score |-> h, llm_called |-> asks,
         llm_requests |-> IF asks THEN 1 ELSE 0,
         llm_failed |-> asks /\ IsRaise(llm), final_score |-> final]

\* analyze_complexity: [t |-> "return", value |-> level, ...] with the scores it
\* went through, or a raise.  llm_requests counts the POSTs to the local model:
\* _llm_complexity_analysis is called at most once and posts once.
analyze_complexity(ollama_available, p, reply) ==
    LET h == heuristic_complexity_score(p)
        asks == ollama_available /\ FloatGt(h, 300)
        llm == llm_complexity_analysis(reply)
        final == IF asks /\ ~IsRaise(llm) THEN Blend(h, llm) ELSE h
    IN  [t |-> "return", exc |-> "", value |-> ScoreToLevel(final),
         heuristic_score |-> h, llm_called |-> asks,
         llm_requests |-> IF asks THEN 1 ELSE 0,
         llm_failed |-> asks /\ IsRaise(llm), final_score |-> final]

\* ------------------------------------------------ IntelligentLLMRouter
\* _initialize_ollama: the analyzer's version probe at startup.
ProbeOutcomes == {"status_200", "status_other", "exception"}

initialize_ollama(probe) == probe = "status_200"

\* _initialize_clients: a client is None (FALSE) or set (TRUE).  The Ollama
\* client is only constructed, not contacted; a cloud client is constructed
\* when its API key is set.  ctor says which constructors succeed.
initialize_clients(cfg, ctor) ==
    [ollama_client |-> ctor.ollama,
     openai_client |-> cfg.openai_api_key /\ ctor.openai,
     anthropic_client |-> cfg.anthropic_api_key /\ ctor.anthropic]

\* IntelligentLLMRouter(): the analyzer's flag and the three clients.
NewRouter(cfg, probe, ctor) ==
    [ollama_available |-> initialize_ollama(probe)] @@ initialize_clients(cfg, ctor)

\* Pricing per 1K tokens.
pricing ==
    [p \in LLMProvider |->
        CASE p = "ollama_mistral" -> Decimal(0, 4)
          [] p = "openai_gpt_3.5_turbo" -> Decimal(15, 4)
          [] p = "openai_gpt_4" -> Decimal(3, 2)
          [] p = "anthropic_claude_3_haiku" -> Decimal(8, 4)]

RoutingDecision(provider, model, estimated_cost, reasoning, complexity, confidence) ==
    [t |-> "RoutingDecision", provider |-> provider, model |-> model,
     estimated_cost |-> estimated_cost,
     reasoning |-> reasoning, complexity |-> complexity, confidence |-> confidence]

\* An Ollama candidate: its cost is the literal Decimal("0.0000").
OllamaOption(reasoning, complexity, confidence) ==
    RoutingDecision("ollama_mistral", "mistral:7b-instruct", Decimal(0, 4),
                    reasoning, complexity, confidence)

\* A cloud candidate: cost = (estimated_tokens / 1000) * self.pricing[provider],
\* or the exception that product raises.
CloudOption(provider, model, estimated_tokens, reasoning, complexity, confidence) ==
    LET cost == PyMul(PyDiv1000(estimated_tokens), pricing[provider])
    IN  IF IsRaise(cost) THEN cost
        ELSE RoutingDecision(provider, model, cost, reasoning, complexity, confidence)

\* One "if client: options.append(candidate)" of _generate_routing_options, after
\* the statements that gave g: [t, exc, options], options being the list so far.
ThenAppend(g, client, candidate) ==
    IF g.t = "raise" \/ ~client THEN g
    ELSE IF IsRaise(candidate) THEN [g EXCEPT !.t = "raise", !.exc = candidate.exc]
    ELSE [g EXCEPT !.options = Append(g.options, candidate)]

generate_routing_options(r, complexity, estimated_tokens, preferred_quality) ==
    LET start == [t |-> "return", exc |-> "", options |-> <<>>]
    IN  CASE complexity = "simple" ->
               ThenAppend(
                 ThenAppend(start, r.ollama_client,
                   OllamaOption("Simple task, Ollama can handle efficiently",
                                complexity, 90)),
                 r.openai_client,
                 CloudOption("openai_gpt_3.5_turbo", "gpt-3.5-turbo", estimated_tokens,
                             "Backup for simple task", complexity, 80))
          [] complexity = "medium" ->
               ThenAppend(
                 ThenAppend(start, preferred_quality = "fast" /\ r.ollama_client,
                   OllamaOption("Fast processing requested, Ollama is instant",
                                complexity, 70)),
                 r.openai_client,
                 CloudOption("openai_gpt_3.5_turbo", "gpt-3.5-turbo", estimated_tokens,
                             "Good balance of cost and capability for medium tasks",
                             complexity, 90))
          [] complexity = "complex" ->
               ThenAppend(
                 ThenAppend(start, r.openai_client,
                   CloudOption("openai_gpt_4", "gpt-4", estimated_tokens,
                               "Complex reasoning requires GPT-4 capabilities",
                               complexity, 95)),
                 r.anthropic_client,
                 CloudOption("anthropic_claude_3_haiku", "claude-3-haiku-20240307",
                             estimated_tokens,
                             "Claude alternative for complex reasoning", complexity, 90))
          [] OTHER -> start

create_fallback_option(r, complexity, estimated_tokens) ==
    IF r.ollama_client
    THEN OllamaOption("Fallback to free local model", complexity, 50)
    ELSE Raise("Exception: No available LLM providers!")

\* "if max_budget: options = [opt for opt in options if opt.estimated_cost <= max_budget]"
WithinBudget(opt, max_budget) == NumLeq(opt.estimated_cost, max_budget)

\* FilterByBudget with the comparison turned round: it keeps what costs more.
FilterByBudget_inverted(options, max_budget) ==
    IF Truthy(max_budget)
    THEN SelectSeq(options, LAMBDA opt : ~WithinBudget(opt, max_budget))
    ELSE options

FilterByBudget(options, max_budget) ==
    IF Truthy(max_budget)
    THEN SelectSeq(options, LAMBDA opt : WithinBudget(opt, max_budget))
    ELSE options

\* route_request: [t |-> "return", value |-> the decision] or [t |-> "raise", exc],
\* with the tier it analysed, its token estimate and the candidates it had
\* generated (up to the statement that raised, if one did).
route_request(r, p, reply, max_budget, preferred_quality) ==
    LET a == analyze_complexity(r.ollama_available, p, reply)
        complexity == a.value
        estimated_tokens == PyMul(PyInt(p.words), PyFloat(13, 1))
        g == generate_routing_options(r, complexity, estimated_tokens, preferred_quality)
        options == FilterByBudget(g.options, max_budget)
        fallback == create_fallback_option(r, complexity, estimated_tokens)
        out(t, exc, value, generated) ==
            [t |-> t, exc |-> exc, value |-> value, complexity |-> complexity,
             estimated_tokens |-> estimated_tokens, generated |-> generated]
    IN  IF a.t = "raise" THEN [out(a.t, a.exc, None, <<>>) EXCEPT !.complexity = ""]
        ELSE IF g.t = "raise" THEN out("raise", g.exc, None, g.options)
        ELSE IF options # <<>> THEN out("return", "", options[1], g.options)
        ELSE IF IsRaise(fallback) THEN out("raise", fallback.exc, None, g.options)
        ELSE out("return", "", fallback, g.options)

\* ---------------------------------------------------- execute_request
\* What the provider call comes to.  "ok": the backend answers with a text of
\* `words` words and, for the cloud vendors, reports `usage` tokens (the two
\* Anthropic counts summed); "http_error": raise_for_status() or the vendor
\* client raises on the status; "timeout"; "malformed": the payload lacks the
\* field the code reads.
ProviderOutcomes ==
    { [kind |-> "ok", words |-> w, usage |-> u] : w \in {0, 3}, u \in {0, 1000} }
    \cup { [kind |-> k, words |-> 0, usage |-> 0] :
             k \in {"http_error", "timeout", "malformed"} }

\* A response text, by its number of words; "" has none.
Text(words) == [t |-> "str", words |-> words]

ProviderError(outcome, status_error) ==
    CASE outcome.kind = "http_error" -> Raise(status_error)
      [] outcome.kind = "timeout" -> Raise("TimeoutException")
      [] OTHER -> Raise("KeyError")

\* The provider functions return {'content', 'tokens'} or raise.  A client that
\* is None raises AttributeError on its first use.
Reply(content, tokens) == [t |-> "dict", content |-> content, tokens |-> tokens]

\* tokens = int(len(response.split()) * 1.3)
execute_ollama(r, outcome) ==
    IF ~r.ollama_client THEN Raise("AttributeError")
    ELSE IF outcome.kind # "ok" THEN ProviderError(outcome, "HTTPStatusError")
    ELSE Reply(Text(outcome.words), PyInt((outcome.words * 13) \div 10))

\* tokens = response.usage.total_tokens
execute_openai(r, outcome) ==
    IF ~r.openai_client THEN Raise("AttributeError")
    ELSE IF outcome.kind # "ok" THEN ProviderError(outcome, "APIStatusError")
    ELSE Reply(Text(outcome.words), PyInt(outcome.usage))

\* tokens = response.usage.input_tokens + response.usage.output_tokens
execute_anthropic(r, outcome) ==
    IF ~r.anthropic_client THEN Raise("AttributeError")
    ELSE IF outcome.kind # "ok" THEN ProviderError(outcome, "APIStatusError")
    ELSE Reply(Text(outcome.words), PyInt(outcome.usage))

\* The dispatch on decision.provider.
Dispatch(r, decision, outcome) ==
    CASE decision.provider = "ollama_mistral" -> execute_ollama(r, outcome)
      [] decision.provider = "openai_gpt_3.5_turbo" -> execute_openai(r, outcome)
      [] decision.provider = "openai_gpt_4" -> execute_openai(r, outcome)
      [] decision.provider = "anthropic_claude_3_haiku" -> execute_anthropic(r, outcome)
      [] OTHER -> Raise("ValueError")

\* ExecutionResult; duration_seconds, a wall-clock reading, is left out.
ExecutionResult(content, provider, actual_tokens, actual_cost, success, error) ==
    [t |-> "ExecutionResult", content |-> content, provider |-> provider,
     actual_tokens |-> actual_tokens, actual_cost |-> actual_cost,
     success |-> success, error |-> error]

\* The except branch: error = str(e), here the exception's class.
FailureResult(decision, exc) ==
    ExecutionResult(Text(0), decision.provider, PyInt(0), Decimal(0, 4), FALSE,
                    [t |-> "str", text |-> exc])

\* SuccessResult with the division by 1000 forgotten.
SuccessResult_per_token(decision, result) ==
    LET actual_cost == PyMul(result.tokens, pricing[decision.provider])
    IN  IF IsRaise(actual_cost) THEN actual_cost
        ELSE ExecutionResult(result.content, decision.provider, result.tokens,
                             actual_cost, TRUE, None)

\* The try body after the dispatch:
\* actual_cost = (result['tokens'] / 1000) * self.pricing[decision.provider]
SuccessResult(decision, result) ==
    LET actual_cost == PyMul(PyDiv1000(result.tokens), pricing[decision.provider])
    IN  IF IsRaise(actual_cost) THEN actual_cost
        ELSE ExecutionResult(result.content, decision.provider, result.tokens,
                             actual_cost, TRUE, None)

\* execute_request with "except ValueError" for "except Exception".
execute_request_narrow_except(r, decision, outcome) ==
    LET result == Dispatch(r, decision, outcome)
        done == IF IsRaise(result) THEN result ELSE SuccessResult(decision, result)
    IN  IF IsRaise(done) /\ done.exc # "ValueError"
        THEN [t |-> "raise", exc |-> done.exc, value |-> None, dispatched |-> result]
        ELSE [t |-> "return", exc |-> "",
              value |-> IF IsRaise(done) THEN FailureResult(decision, done.exc)
                        ELSE done,
              dispatched |-> result]

\* execute_request: every exception of the try body ends in the except branch.
execute_request(r, decision, outcome) ==
    LET result == Dispatch(r, decision, outcome)
        done == IF IsRaise(result) THEN result ELSE SuccessResult(decision, result)
    IN  [t |-> "return", exc |-> "",
         value |-> IF IsRaise(done) THEN FailureResult(decision, done.exc) ELSE done,
         dispatched |-> result]

\* --------------------------------------------------- HybridNuiFloAgent
\* self.execution_metrics of a new agent.
NewMetrics ==
    [total_tokens |-> PyInt(0), total_cost |-> Decimal(0, 2), ollama_calls |-> 0,
     commercial_calls |-> 0, savings |-> Decimal(0, 2), task_history |-> <<>>]

\* HybridNuiFloAgent(role_model, max_budget_per_task, quality_preference):
\* max_budget_per_task or Decimal("1.00").  pc, decision and result are where
\* the agent's execute_task stands and its local variables; output is what the
\* latest execute_task returned.
NewAgent(max_budget_per_task, quality_preference) ==
    [t |-> "HybridNuiFloAgent",
     max_budget_per_task |-> IF Truthy(max_budget_per_task) THEN max_budget_per_task
                             ELSE Decimal(100, 2),
     quality_preference |-> quality_preference,
     execution_metrics |-> NewMetrics,
     pc |-> "idle", decision |-> None, result |-> None, output |-> None]

\* One task_history entry; the timestamp and the duration are clock readings
\* and left out.  float(x) of a Decimal keeps its value.
HistoryEntry(decision, result, savings) ==
    [provider |-> result.provider, complexity |-> decision.complexity,
     tokens |-> result.actual_tokens,
     cost |-> [result.actual_cost EXCEPT !.t = "float"],
     savings |-> [savings EXCEPT !.t = "float"]]

\* _track_execution with "=" for "+=" on total_tokens.
track_execution_overwrite(m, decision, result) ==
    LET m1 == [m EXCEPT !.total_tokens = result.actual_tokens,
                        !.total_cost = PyAdd(@, result.actual_cost)]
        m2 == IF result.provider = "ollama_mistral"
              THEN [m1 EXCEPT !.ollama_calls = @ + 1]
              ELSE [m1 EXCEPT !.commercial_calls = @ + 1]
        gpt4_cost == PyMul(PyDiv1000(result.actual_tokens), Decimal(3, 2))
        savings == IF IsRaise(gpt4_cost) THEN gpt4_cost
                   ELSE PySub(gpt4_cost, result.actual_cost)
    IN  IF IsRaise(savings)
        THEN [t |-> "raise", exc |-> savings.exc, metrics |-> m2]
        ELSE [t |-> "return", exc |-> "",
              metrics |-> [m2 EXCEPT
                  !.savings = PyAdd(@, savings),
                  !.task_history = Append(@, HistoryEntry(decision, result, savings))]]

\* _track_execution, statement by statement: [t, exc, metrics], metrics being
\* the dict as the call leaves it, also when a statement raises half way.
track_execution(m, decision, result) ==
    LET m1 == [m EXCEPT !.total_tokens = PyAdd(@, result.actual_tokens),
                        !.total_cost = PyAdd(@, result.actual_cost)]
        m2 == IF result.provider = "ollama_mistral"
              THEN [m1 EXCEPT !.ollama_calls = @ + 1]
              ELSE [m1 EXCEPT !.commercial_calls = @ + 1]
        gpt4_cost == PyMul(PyDiv1000(result.actual_tokens), Decimal(3, 2))
        savings == IF IsRaise(gpt4_cost) THEN gpt4_cost
                   ELSE PySub(gpt4_cost, result.actual_cost)
    IN  IF IsRaise(savings)
        THEN [t |-> "raise", exc |-> savings.exc, metrics |-> m2]
        ELSE [t |-> "return", exc |-> "",
              metrics |-> [m2 EXCEPT
                  !.savings = PyAdd(@, savings),
                  !.task_history = Append(@, HistoryEntry(decision, result, savings))]]

\* _calculate_savings
calculate_savings(result) ==
    LET gpt4_cost == PyMul(PyDiv1000(result.actual_tokens), Decimal(3, 2))
    IN  IF IsRaise(gpt4_cost) THEN gpt4_cost ELSE PySub(gpt4_cost, result.actual_cost)

\* Decimal / int.  The quotient is kept to nine places, which holds every
\* quotient of the costs and call counts that occur here exactly.
PyDivInt(a, n) == Decimal((a.v * Pow10(9 - a.e)) \div n, 9)

\* round((k / n) * 100, 1), in tenths of a percent.  No k / n with n < 16 lies
\* half way between two tenths.
RoundedPercent(k, n) == (2000 * k + n) \div (2 * n)

\* float(x) of a Decimal or an int.
ToFloat(x) == [x EXCEPT !.t = "float"]

\* The slice of get_cost_summary's "task_history".
HistoryCap == 5

\* seq[-k:]
LastOf(seq, k) == SubSeq(seq, Max(1, Len(seq) - k + 1), Len(seq))

\* get_cost_summary that also clears the counters it has read.
get_cost_summary_resetting(m) ==
    LET total_calls == m.ollama_calls + m.commercial_calls
    IN  IF total_calls = 0
        THEN [t |-> "return", metrics |-> m,
              value |-> [message |-> "No tasks executed yet"]]
        ELSE [t |-> "return",
              metrics |-> [m EXCEPT !.ollama_calls = 0, !.commercial_calls = 0],
              value |-> [total_cost |-> ToFloat(m.total_cost),
                         total_savings |-> ToFloat(m.savings),
                         total_tokens |-> m.total_tokens,
                         total_calls |-> total_calls,
                         ollama_calls |-> m.ollama_calls,
                         commercial_calls |-> m.commercial_calls,
                         ollama_percentage |-> RoundedPercent(m.ollama_calls, total_calls),
                         average_cost_per_call |->
                             ToFloat(PyDivInt(m.total_cost, total_calls)),
                         cost_efficiency |-> RoundedPercent(m.ollama_calls, total_calls),
                         task_history |-> LastOf(m.task_history, HistoryCap)]]

\* get_cost_summary with the percentage cut off after its first decimal.
get_cost_summary_truncating(m) ==
    LET total_calls == m.ollama_calls + m.commercial_calls
    IN  IF total_calls = 0
        THEN [t |-> "return", metrics |-> m,
              value |-> [message |-> "No tasks executed yet"]]
        ELSE [t |-> "return", metrics |-> m,
              value |-> [total_cost |-> ToFloat(m.total_cost),
                         total_savings |-> ToFloat(m.savings),
                         total_tokens |-> m.total_tokens,
                         total_calls |-> total_calls,
                         ollama_calls |-> m.ollama_calls,
                         commercial_calls |-> m.commercial_calls,
                         ollama_percentage |-> (1000 * m.ollama_calls) \div total_calls,
                         average_cost_per_call |->
                             ToFloat(PyDivInt(m.total_cost, total_calls)),
                         cost_efficiency |-> RoundedPercent(m.ollama_calls, total_calls),
                         task_history |-> LastOf(m.task_history, HistoryCap)]]

\* get_cost_summary: [t, metrics, value], metrics being execution_metrics as
\* the call leaves it and value the dict returned.  The percentages are in
\* tenths of a percent; cost_efficiency is the text that shows the percentage
\* with one decimal.
get_cost_summary(m) ==
    LET total_calls == m.ollama_calls + m.commercial_calls
    IN  IF total_calls = 0
        THEN [t |-> "return", metrics |-> m,
              value |-> [message |-> "No tasks executed yet"]]
        ELSE [t |-> "return", metrics |-> m,
              value |-> [total_cost |-> ToFloat(m.total_cost),
                         total_savings |-> ToFloat(m.savings),
                         total_tokens |-> m.total_tokens,
                         total_calls |-> total_calls,
                         ollama_calls |-> m.ollama_calls,
                         commercial_calls |-> m.commercial_calls,
                         ollama_percentage |-> RoundedPercent(m.ollama_calls, total_calls),
                         average_cost_per_call |->
                             ToFloat(PyDivInt(m.total_cost, total_calls)),
                         cost_efficiency |-> RoundedPercent(m.ollama_calls, total_calls),
                         task_history |-> LastOf(m.task_history, HistoryCap)]]

\* What execute_task returns from its except branch.
TaskFailed(exc) == [t |-> "str", text |-> "Task execution failed", exc |-> exc]

\* ------------------------------------------------------------- state
Agents == {"a1", "a2"}

\* The threads that call get_intelligent_router() side by side.
Callers == {"t1", "t2"}

VARIABLES
    settings,   \* the configured API keys: [openai_api_key, anthropic_api_key]
    router,     \* _router_instance: None, or the router's flags and clients
    call,       \* the latest call of the router's interface: arguments and outcome
    agents,     \* agents[a]: None, or the HybridNuiFloAgent a
    recorded,   \* recorded[a]: the (decision, result) pairs a's _track_execution was
                \* called with, oldest first: provider of each, tokens, cost in 1e-8 $
    constructed,\* how many times IntelligentLLMRouter() has run (startup probes made)
    getter,     \* getter[x]: where caller x stands in get_intelligent_router()
    crew        \* None, or the HybridNuiFloCrew

vars == <<settings, router, call, agents, recorded, constructed, getter, crew>>

NoCall == [op |-> "none"]

Init ==
    /\ settings \in [openai_api_key : BOOLEAN, anthropic_api_key : BOOLEAN]
    /\ router = None
    /\ call = NoCall
    /\ agents = [a \in Agents |-> None]
    /\ recorded = [a \in Agents |-> <<>>]
    /\ constructed = 0
    /\ getter = [x \in Callers |-> [pc |-> "idle", calls |-> 0, got |-> 0]]
    /\ crew = None

Ctors == [ollama : BOOLEAN, openai : BOOLEAN, anthropic : BOOLEAN]

\* ------------------------------------------- the router's interface
\* The caller takes the result of the latest call; the calls are synchronous,
\* one at a time.
TakeResult ==
    /\ call # NoCall
    /\ call' = NoCall
    /\ UNCHANGED <<settings, constructed, getter, crew, router, agents, recorded>>

\* _router_instance = IntelligentLLMRouter(): the instance constructed n-th has
\* id n.
Construct(n, probe, ctor) == [id |-> n] @@ NewRouter(settings, probe, ctor)

\* get_intelligent_router(), first call of a single caller: constructs the router.
GetIntelligentRouter ==
    /\ router = None
    /\ \E probe \in ProbeOutcomes, ctor \in Ctors :
          router' = Construct(constructed + 1, probe, ctor)
    /\ constructed' = constructed + 1
    /\ UNCHANGED <<settings, getter, crew, call, agents, recorded>>

\* router.complexity_analyzer.analyze_complexity(prompt)
AnalyzeComplexity ==
    /\ router # None
    /\ call = NoCall
    /\ \E p \in Prompts, reply \in LlmOutcomes :
          call' = [op |-> "analyze_complexity", prompt |-> p, reply |-> reply]
                  @@ analyze_complexity(router.ollama_available, p, reply)
    /\ UNCHANGED <<settings, constructed, getter, crew, router, agents, recorded>>

\* The prompts route_request is called with: any keyword and code mix at the
\* shortest and the longest length.
RoutePrompts == { p \in Prompts : p.simple = 0 /\ ~p.creative /\ p.len # 1 }

RouteReplies == { [kind |-> "timeout"], [kind |-> "text", number |-> NoNumber],
                  [kind |-> "text", number |-> 1000] }

Budgets == {None, Decimal(0, 0), Decimal(1, 4), Decimal(1, 2), Decimal(100, 2)}

\* router.route_request(prompt, context, max_budget, preferred_quality)
RouteRequest ==
    /\ router # None
    /\ call = NoCall
    /\ \E p \in RoutePrompts, reply \in RouteReplies, max_budget \in Budgets,
          preferred_quality \in QualityPreference :
          call' = [op |-> "route_request", words |-> p.words,
                   max_budget |-> max_budget, preferred_quality |-> preferred_quality]
                  @@ route_request(router, p, reply, max_budget, preferred_quality)
    /\ UNCHANGED <<settings, constructed, getter, crew, router, agents, recorded>>

\* The decisions execute_request is handed: one per provider, and one whose
\* provider is none of the enum's.
ExecDecisions ==
    { RoutingDecision(p, "model", Decimal(0, 4), "caller", c, 90) :
        p \in LLMProvider \cup {"unknown"}, c \in {"simple", "complex"} }

\* ExecuteRequest on a router that takes a client out of service when the
\* call through it failed.
ExecuteRequest_dropping_failed ==
    /\ router # None
    /\ call = NoCall
    /\ \E decision \in ExecDecisions, outcome \in ProviderOutcomes :
          LET er == execute_request(router, decision, outcome)
          IN  /\ call' = [op |-> "execute_request", decision |-> decision] @@ er
              /\ router' = IF IsRaise(er.dispatched) /\ decision.provider = "ollama_mistral"
                            THEN [router EXCEPT !.ollama_client = FALSE]
                            ELSE router
    /\ UNCHANGED <<settings, constructed, getter, crew, agents, recorded>>

\* router.execute_request(decision, prompt)
ExecuteRequest ==
    /\ router # None
    /\ call = NoCall
    /\ \E decision \in ExecDecisions, outcome \in ProviderOutcomes :
          call' = [op |-> "execute_request", decision |-> decision]
                  @@ execute_request(router, decision, outcome)
    /\ UNCHANGED <<settings, constructed, getter, crew, router, agents, recorded>>

Next ==
    \/ GetIntelligentRouter
    \/ AnalyzeComplexity
    \/ RouteRequest
    \/ ExecuteRequest
    \/ TakeResult

Spec == Init /\ [][Next]_vars

\* ------------------------------------------------- the agent's tasks
\* Most _track_execution calls on one agent.
MaxRecords == 3

\* execute_task is started on an agent with fewer than MaxTasks calls recorded.
MaxTasks == 2

\* What recorded keeps of one _track_execution call.
Recorded(decision, result) ==
    [decision_provider |-> decision.provider, tokens |-> result.actual_tokens.v,
     cost |-> Scaled(result.actual_cost, 8)]

\* HybridNuiFloAgent(...): takes the router, constructing it if there is none.
CreateAgent(a) ==
    /\ agents[a] = None
    /\ call = NoCall
    /\ \E probe \in ProbeOutcomes, ctor \in Ctors :
          router' = IF router = None THEN Construct(constructed + 1, probe, ctor)
                    ELSE router
    /\ constructed' = IF router = None THEN constructed + 1 ELSE constructed
    /\ \E max_budget_per_task \in {None, Decimal(1, 4)},
          quality_preference \in QualityPreference :
          agents' = [agents EXCEPT ![a] = NewAgent(max_budget_per_task, quality_preference)]
    /\ UNCHANGED <<settings, getter, crew, call, recorded>>

\* An agent as create_hybrid_crew_from_team makes it: a share of the team's
\* budget and quality_preference "balanced".
FactoryAgent(a) ==
    /\ CreateAgent(a)
    /\ agents'[a].quality_preference = "balanced"
    /\ agents'[a].max_budget_per_task = Decimal(1, 4)

TaskPrompts == { p \in RoutePrompts : p.len = 0 /\ p.words > 0 }

\* execute_task, step 1: the routing decision; a raise ends the task in the
\* except branch.
TaskRoute(a) ==
    /\ agents[a] # None
    /\ agents[a].pc = "idle"
    /\ call = NoCall
    /\ Len(recorded[a]) < MaxTasks
    /\ \E p \in TaskPrompts, reply \in RouteReplies :
          LET rr == route_request(router, p, reply, agents[a].max_budget_per_task,
                                  agents[a].quality_preference)
          IN  agents' = [agents EXCEPT ![a] =
                  IF rr.t = "raise"
                  THEN [@ EXCEPT !.output = TaskFailed(rr.exc)]
                  ELSE [@ EXCEPT !.pc = "routed", !.decision = rr.value, !.output = None]]
    /\ UNCHANGED <<settings, constructed, getter, crew, router, call, recorded>>

\* TaskExecute that, when the execution failed, executes once more on the
\* low-tier cloud model.
TaskExecute_substituting(a) ==
    /\ agents[a] # None
    /\ agents[a].pc = "routed"
    /\ \E outcome \in ProviderOutcomes :
          LET er == execute_request(router, agents[a].decision, outcome)
              again == execute_request(router,
                           [agents[a].decision EXCEPT !.provider = "openai_gpt_3.5_turbo"],
                           outcome)
          IN  agents' = [agents EXCEPT ![a] =
                  [@ EXCEPT !.pc = "executed",
                            !.result = IF er.value.success THEN er.value ELSE again.value]]
    /\ UNCHANGED <<settings, constructed, getter, crew, router, call, recorded>>

\* execute_task, step 2: execute_request on the decision.
TaskExecute(a) ==
    /\ agents[a] # None
    /\ agents[a].pc = "routed"
    /\ \E outcome \in ProviderOutcomes :
          LET er == execute_request(router, agents[a].decision, outcome)
          IN  agents' = [agents EXCEPT ![a] =
                  IF er.t = "raise"
                  THEN [@ EXCEPT !.pc = "idle", !.decision = None,
                                 !.output = TaskFailed(er.exc)]
                  ELSE [@ EXCEPT !.pc = "executed", !.result = er.value]]
    /\ UNCHANGED <<settings, constructed, getter, crew, router, call, recorded>>

\* TaskTrack on a tracker that all agents hold in common: the call updates
\* the metrics of every agent there is.
TaskTrack_shared(a) ==
    /\ agents[a] # None
    /\ agents[a].pc = "executed"
    /\ LET ag == agents[a]
           sv == calculate_savings(ag.result)
       IN  /\ agents' = [b \in Agents |->
                  IF agents[b] = None THEN None
                  ELSE LET tr == track_execution(agents[b].execution_metrics,
                                                 ag.decision, ag.result)
                       IN  IF b # a
                           THEN [agents[b] EXCEPT !.execution_metrics = tr.metrics]
                           ELSE [agents[b] EXCEPT
                                    !.execution_metrics = tr.metrics,
                                    !.pc = "idle", !.decision = None, !.result = None,
                                    !.output = IF tr.t = "raise" THEN TaskFailed(tr.exc)
                                               ELSE IF IsRaise(sv) THEN TaskFailed(sv.exc)
                                               ELSE ag.result.content]]
           /\ recorded' = [recorded EXCEPT
                  ![a] = Append(@, Recorded(ag.decision, ag.result))]
    /\ UNCHANGED <<settings, constructed, getter, crew, router, call>>

\* execute_task, steps 3 and 4: _track_execution, _calculate_savings, and the
\* return of result.content, or of the failure text from the except branch.
TaskTrack(a) ==
    /\ agents[a] # None
    /\ agents[a].pc = "executed"
    /\ LET ag == agents[a]
           tr == track_execution(ag.execution_metrics, ag.decision, ag.result)
           sv == calculate_savings(ag.result)
       IN  /\ agents' = [agents EXCEPT ![a] =
                  [@ EXCEPT !.execution_metrics = tr.metrics,
                            !.pc = "idle", !.decision = None, !.result = None,
                            !.output = IF tr.t = "raise" THEN TaskFailed(tr.exc)
                                       ELSE IF IsRaise(sv) THEN TaskFailed(sv.exc)
                                       ELSE ag.result.content]]
           /\ recorded' = [recorded EXCEPT
                  ![a] = Append(@, Recorded(ag.decision, ag.result))]
    /\ UNCHANGED <<settings, constructed, getter, crew, router, call>>

\* The (decision, result) pairs _track_execution is called with on its own: a
\* decision and the result an execution of it reports, 0 or 1000 tokens on the
\* local provider and 1000 on a paid one, at the provider's price.
ReportedResult(p, tokens) ==
    ExecutionResult(Text(3), p, PyInt(tokens),
                    PyMul(PyMul(PyInt(tokens), pricing[p]), Decimal(1, 3)), TRUE, None)

TrackInputs ==
    { <<RoutingDecision(in.p, "model", pricing[in.p], "caller", "complex", 90),
        ReportedResult(in.p, in.tokens)>> :
        in \in { [p |-> "ollama_mistral", tokens |-> 0],
                 [p |-> "ollama_mistral", tokens |-> 1000],
                 [p |-> "openai_gpt_4", tokens |-> 1000] } }

\* agent._track_execution(decision, result)
TrackExecution(a) ==
    /\ agents[a] # None
    /\ agents[a].pc = "idle"
    /\ call = NoCall
    /\ Len(recorded[a]) < MaxRecords
    /\ \E in \in TrackInputs :
          /\ agents' = [agents EXCEPT ![a].execution_metrics =
                            track_execution(@, in[1], in[2]).metrics]
          /\ recorded' = [recorded EXCEPT ![a] = Append(@, Recorded(in[1], in[2]))]
    /\ UNCHANGED <<settings, constructed, getter, crew, router, call>>

\* agent.get_cost_summary()
GetCostSummary(a) ==
    /\ agents[a] # None
    /\ agents[a].pc = "idle"
    /\ call = NoCall
    /\ LET s == get_cost_summary(agents[a].execution_metrics)
       IN  /\ call' = [op |-> "get_cost_summary", agent |-> a,
                       before |-> agents[a].execution_metrics] @@ s
           /\ agents' = [agents EXCEPT ![a].execution_metrics = s.metrics]
    /\ UNCHANGED <<settings, constructed, getter, crew, router, recorded>>

NextTracker ==
    \/ CreateAgent("a1")
    \/ TaskRoute("a1")
    \/ TaskExecute("a1")
    \/ TaskTrack("a1")
    \/ TrackExecution("a1")
    \/ GetCostSummary("a1")
    \/ TakeResult

SpecTracker == Init /\ [][NextTracker]_vars

\* ---------------------------------------------------- HybridNuiFloCrew
\* The element of a one-element set: TheOne({ e(x) : x \in {v} }) is e(v), with
\* v worked out once.
TheOne(S) == CHOOSE x \in S : TRUE

\* execute_task in one piece, for the crew's loop: [metrics, output, executed,
\* result, tracked].  executed says whether execute_request was reached, result
\* is its ExecutionResult, tracked the call _track_execution was made with.
execute_task(r, ag, p, reply, outcome) ==
    TheOne({ IF rr.t = "raise"
             THEN [metrics |-> ag.execution_metrics, output |-> TaskFailed(rr.exc),
                   executed |-> FALSE, result |-> None, tracked |-> <<>>]
             ELSE TheOne({
                  LET tr == track_execution(ag.execution_metrics, rr.value, er.value)
                      sv == calculate_savings(er.value)
                  IN  [metrics |-> tr.metrics,
                       output |-> IF tr.t = "raise" THEN TaskFailed(tr.exc)
                                  ELSE IF IsRaise(sv) THEN TaskFailed(sv.exc)
                                  ELSE er.value.content,
                       executed |-> TRUE, result |-> er.value,
                       tracked |-> <<Recorded(rr.value, er.value)>>] :
                  er \in {execute_request(r, rr.value, outcome)} }) :
             rr \in {route_request(r, p, reply, ag.max_budget_per_task,
                                   ag.quality_preference)} })

\* self.team_metrics of a new crew; agents_summary is keyed by the agent.
NewTeamMetrics ==
    [total_cost |-> Decimal(0, 2), total_savings |-> Decimal(0, 2),
     agents_summary |-> [a \in Agents |-> None], budget_utilization |-> 0]

\* float((total_cost / max_team_budget) * 100), its whole percents.
Utilization(total_cost, max_team_budget) ==
    LET e == Max(total_cost.e, max_team_budget.e)
    IN  (Scaled(total_cost, e) * 100) \div Scaled(max_team_budget, e)

\* _update_team_metrics(agent), metrics being the agent's execution_metrics.
update_team_metrics(team, max_team_budget, a, metrics) ==
    LET total_cost == PyAdd(team.total_cost, metrics.total_cost)
    IN  [team EXCEPT
            !.total_cost = total_cost,
            !.total_savings = PyAdd(@, metrics.savings),
            !.agents_summary[a] = get_cost_summary(metrics).value,
            !.budget_utilization = Utilization(total_cost, max_team_budget)]

\* _generate_execution_report(final_result); the joined results are kept as
\* the sequence of the tasks' outputs.
generate_execution_report(team, task_results) ==
    [result |-> task_results, success |-> TRUE,
     total_cost |-> ToFloat(team.total_cost),
     total_savings |-> ToFloat(team.total_savings),
     budget_utilization |-> team.budget_utilization,
     agents_performance |-> team.agents_summary]

\* Most execute_with_tracking calls on one crew.
MaxRuns == 2

\* HybridNuiFloCrew(team_model, agents, tasks, max_team_budget), one task per
\* agent: max_team_budget or Decimal("10.00").  The constructor's last
\* statement takes float(max_team_budget) of the argument, so every crew that
\* exists was given a number.  runs counts the execute_with_tracking calls
\* made on the crew.
NewCrew(members, max_team_budget) ==
    [t |-> "HybridNuiFloCrew", agents |-> members,
     max_team_budget |-> IF Truthy(max_team_budget) THEN max_team_budget
                         ELSE Decimal(1000, 2),
     team_metrics |-> NewTeamMetrics, runs |-> 0]

\* The state of the loop of execute_with_tracking after the task of agent a
\* came to done.  st is [agents, recorded, team, task_results, tasks]: the
\* agents and what their trackers were called with, the team metrics, the
\* outputs so far and what each task came to, with the team's total_cost at
\* the budget check that let it start.
AfterTask(st, max_team_budget, a, done) ==
    [agents |-> [st.agents EXCEPT ![a].execution_metrics = done.metrics,
                                  ![a].output = done.output],
     recorded |-> [st.recorded EXCEPT ![a] = @ \o done.tracked],
     team |-> update_team_metrics(st.team, max_team_budget, a, done.metrics),
     task_results |-> Append(st.task_results, done.output),
     tasks |-> Append(st.tasks, [agent |-> a, executed |-> done.executed,
                                 result |-> done.result, output |-> done.output,
                                 team_cost_before |-> st.team.total_cost])]

\* crew_loop without the budget check before a task.
RECURSIVE crew_loop_unchecked(_, _, _, _, _, _)
crew_loop_unchecked(r, members, max_team_budget, inputs, i, st) ==
    IF i > Len(members)
    THEN st
    ELSE TheOne({ crew_loop_unchecked(r, members, max_team_budget, inputs, i + 1, next) :
                  next \in { AfterTask(st, max_team_budget, members[i], done) :
                             done \in {execute_task(r, st.agents[members[i]], inputs[i].p,
                                                    inputs[i].reply, inputs[i].outcome)} } })

\* The loop of execute_with_tracking from task i on.
RECURSIVE crew_loop(_, _, _, _, _, _)
crew_loop(r, members, max_team_budget, inputs, i, st) ==
    IF i > Len(members) \/ NumLeq(max_team_budget, st.team.total_cost)
    THEN st
    ELSE TheOne({ crew_loop(r, members, max_team_budget, inputs, i + 1, next) :
                  next \in { AfterTask(st, max_team_budget, members[i], done) :
                             done \in {execute_task(r, st.agents[members[i]], inputs[i].p,
                                                    inputs[i].reply, inputs[i].outcome)} } })

\* execute_with_tracking on the crew c: nothing in the loop raises (execute_task
\* catches every exception), so the except branch is never entered and the
\* report of _generate_execution_report is returned.  self.team_metrics is not
\* reset: the loop goes on from the metrics the crew has.
execute_with_tracking(r, c, ags, log, inputs) ==
    TheOne({ [t |-> "return",
              value |-> generate_execution_report(st.team, st.task_results),
              tasks |-> st.tasks, agents |-> st.agents, recorded |-> st.recorded,
              team |-> st.team] :
             st \in {crew_loop(r, c.agents, c.max_team_budget, inputs, 1,
                               [agents |-> ags, recorded |-> log, team |-> c.team_metrics,
                                task_results |-> <<>>, tasks |-> <<>>])} })

\* The crew's agents: the agents there are, in the order of their creation by
\* the factory.
CrewOf(ags) == SelectSeq(<<"a1", "a2">>, LAMBDA a : ags[a] # None)

\* What one task of a crew run meets: a short prompt without keywords, the
\* classification call not made or timing out, and a provider that answers or
\* fails.
CrewTaskInputs ==
    { [p |-> p, reply |-> [kind |-> "timeout"], outcome |-> o] :
        p \in { q \in TaskPrompts : ~q.code /\ q.words = 500 /\ q.complex = 0 },
        o \in { x \in ProviderOutcomes :
                  x.kind = "http_error" \/ (x.kind = "ok" /\ x.words = 3 /\ x.usage = 1000) } }

CrewBudgets == {Decimal(1, 4), Decimal(1000, 2)}

\* An agent's tracker has recorded a call before the agent joins a crew.
CrewTrack(a) ==
    /\ crew = None
    /\ recorded[a] = <<>>
    /\ TrackExecution(a)

\* HybridNuiFloCrew(...) of the agents there are, one task each.
CreateCrew ==
    /\ crew = None
    /\ call = NoCall
    /\ CrewOf(agents) # <<>>
    /\ \E max_team_budget \in CrewBudgets :
          crew' = NewCrew(CrewOf(agents), max_team_budget)
    /\ UNCHANGED <<settings, constructed, getter, router, call, agents, recorded>>

\* crew.execute_with_tracking()
ExecuteWithTracking ==
    /\ crew # None
    /\ call = NoCall
    /\ crew.runs < MaxRuns
    /\ \A i \in DOMAIN crew.agents :
          /\ agents[crew.agents[i]].pc = "idle"
          /\ Len(recorded[crew.agents[i]]) < MaxRecords
    /\ \E inputs \in [DOMAIN crew.agents -> CrewTaskInputs] :
          \E run \in {execute_with_tracking(router, crew, agents, recorded, inputs)} :
              /\ call' = [op |-> "execute_with_tracking", t |-> run.t,
                          value |-> run.value, tasks |-> run.tasks,
                          team_before |-> crew.team_metrics]
              /\ agents' = run.agents
              /\ recorded' = run.recorded
              /\ crew' = [crew EXCEPT !.team_metrics = run.team, !.runs = @ + 1]
    /\ UNCHANGED <<settings, constructed, getter, router>>

NextCrew ==
    \/ FactoryAgent("a1")
    \/ FactoryAgent("a2")
    \/ CrewTrack("a1")
    \/ CrewTrack("a2")
    \/ CreateCrew
    \/ ExecuteWithTracking
    \/ TakeResult

SpecCrew == Init /\ [][NextCrew]_vars

\* ------------------------------------------- two agents, interleaved
\* execute_task is started while the two agents together have fewer than
\* MaxInterleaved calls recorded.
MaxInterleaved == 2

\* execute_task of agent a begins.
StartTask(a) ==
    /\ Len(recorded["a1"]) + Len(recorded["a2"]) < MaxInterleaved
    /\ TaskRoute(a)

\* The steps of the execute_task calls of two agents in any order, each agent
\* on its own tracker and both on the one router.
NextAgents ==
    \/ FactoryAgent("a1")
    \/ FactoryAgent("a2")
    \/ StartTask("a1")
    \/ StartTask("a2")
    \/ TaskExecute("a1")
    \/ TaskExecute("a2")
    \/ TaskTrack("a1")
    \/ TaskTrack("a2")

SpecAgents == Init /\ [][NextAgents]_vars

\* ------------------------------- get_intelligent_router(), side by side
\* Most calls of get_intelligent_router() one caller makes.
MaxCalls == 2

\* "if _router_instance is None:": caller x reads the global.
GetTest(x) ==
    /\ getter[x].pc = "idle"
    /\ getter[x].calls < MaxCalls
    /\ getter' = [getter EXCEPT ![x].pc = IF router = None THEN "construct" ELSE "return",
                                ![x].calls = @ + 1]
    /\ UNCHANGED <<settings, router, call, agents, recorded, constructed, crew>>

\* "_router_instance = IntelligentLLMRouter()": caller x, having read None,
\* constructs a router (probe, clients) and stores it in the global.
GetConstruct(x) ==
    /\ getter[x].pc = "construct"
    /\ \E probe \in ProbeOutcomes, ctor \in Ctors :
          router' = Construct(constructed + 1, probe, ctor)
    /\ constructed' = constructed + 1
    /\ getter' = [getter EXCEPT ![x].pc = "return"]
    /\ UNCHANGED <<settings, call, agents, recorded, crew>>

\* "return _router_instance": caller x gets what the global holds now.
GetReturn(x) ==
    /\ getter[x].pc = "return"
    /\ getter' = [getter EXCEPT ![x].pc = "idle", ![x].got = router.id]
    /\ UNCHANGED <<settings, router, call, agents, recorded, constructed, crew>>

\* The function has no lock and the constructor waits for the probe's reply, so
\* the statements of two callers' calls run in any order.
NextSingleton ==
    \/ GetTest("t1")
    \/ GetTest("t2")
    \/ GetConstruct("t1")
    \/ GetConstruct("t2")
    \/ GetReturn("t1")
    \/ GetReturn("t2")

SpecSingleton == Init /\ [][NextSingleton]_vars

\* ------------------------------------------------------------ claims
RouteCall == call.op = "route_request"

ExecCall == call.op = "execute_request"

AnalyzeCall == call.op = "analyze_complexity"

InBudget(opt) == NumLeq(opt.estimated_cost, call.max_budget)

\* C1: a route_request that is given a max_budget (zero included) and has
\* generated at least one candidate whose estimated_cost is at most max_budget
\* returns one of the generated candidates, and its estimated_cost is at most
\* max_budget.
C1_BudgetRespected ==
    (/\ RouteCall /\ call.t = "return" /\ call.max_budget # None
     /\ \E i \in DOMAIN call.generated : InBudget(call.generated[i]))
    => /\ InBudget(call.value)
       /\ \E i \in DOMAIN call.generated : call.generated[i] = call.value

\* A route_request with max_budget = 0 returned although a candidate was within it.
C1_Witness ==
    /\ RouteCall /\ call.t = "return" /\ call.max_budget = Decimal(0, 0)
    /\ call.generated # <<>> /\ InBudget(call.generated[1])

AnyProviderAvailable ==
    router.ollama_client \/ router.openai_client \/ router.anthropic_client

\* C2: route_request raises only when no provider at all is available; with at
\* least one of the local, OpenAI and Anthropic clients available it returns a
\* decision, whatever the tier, the budget and the quality preference.
C2_RaisesOnlyWithoutProvider ==
    (RouteCall /\ AnyProviderAvailable) => call.t = "return"

\* C3: execute_request never raises and returns an ExecutionResult; when the
\* provider call raised, the result has success = False, content "",
\* actual_tokens 0, actual_cost 0 and a non-empty error.
C3_ExecuteNeverRaises ==
    ExecCall =>
        /\ call.t = "return"
        /\ call.value.t = "ExecutionResult"
        /\ IsRaise(call.dispatched) =>
              /\ ~call.value.success
              /\ call.value.content = Text(0)
              /\ call.value.actual_tokens = PyInt(0)
              /\ NumEq(call.value.actual_cost, PyInt(0))
              /\ call.value.error # None
              /\ call.value.error.text # ""

\* An execute_request whose provider call answered with an error status.
C3_Witness ==
    /\ ExecCall /\ IsRaise(call.dispatched)
    /\ call.dispatched.exc = "HTTPStatusError"
    /\ call.t = "return"

\* C4: execute_request returns success = True exactly when the provider call
\* completed without error, and then content is the provider's text,
\* actual_tokens the branch's token count and error is None.
C4_SuccessIffProviderCallSucceeded ==
    ExecCall =>
        /\ call.t = "return"
        /\ call.value.success <=> ~IsRaise(call.dispatched)
        /\ ~IsRaise(call.dispatched) =>
              /\ call.value.content = call.dispatched.content
              /\ call.value.actual_tokens = call.dispatched.tokens
              /\ call.value.error = None

\* C5: every ExecutionResult of execute_request names the decision's provider,
\* and its actual_cost is actual_tokens / 1000 times that provider's price
\* (both sides in 1e-7 $).
C5_ActualCostFormula ==
    (ExecCall /\ call.t = "return") =>
        /\ call.value.provider = call.decision.provider
        /\ call.decision.provider \in LLMProvider =>
              Scaled(call.value.actual_cost, 7)
                = call.value.actual_tokens.v * Scaled(pricing[call.decision.provider], 4)

\* An execute_request on a paid provider whose call answered.
C5_Witness ==
    /\ ExecCall /\ call.t = "return"
    /\ call.decision.provider = "openai_gpt_4"
    /\ ~IsRaise(call.dispatched) /\ call.dispatched.tokens.v > 0

\* C6: analyze_complexity returns one of the four levels and never raises,
\* whatever the startup probe and the classification call came to.
C6_AnalyzeTotal ==
    AnalyzeCall => call.t = "return" /\ call.value \in ComplexityLevel

\* An analysis whose classification call was made and failed.
C6_Witness == AnalyzeCall /\ call.llm_called /\ call.llm_failed /\ call.t = "return"

LevelRank(level) ==
    CASE level = "simple" -> 0 [] level = "medium" -> 1
      [] level = "complex" -> 2 [] level = "specialized" -> 3

\* The scores a final score is compared with: every twentieth, as the double
\* nearest it or a neighbour.
ScoreGrid == { Score(50 * n, d) : n \in 0..20, d \in {0 - 1, 0, 1} }

ScoreLeq(x, y) == x.n < y.n \/ (x.n = y.n /\ x.d <= y.d)

\* C7: the level is decided by the final score alone: below 0.2 simple, from
\* 0.2 below 0.5 medium, from 0.5 below 0.8 complex, from 0.8 specialized; and
\* no lower score gets a higher level.
C7_LevelByThresholds ==
    (AnalyzeCall /\ call.t = "return") =>
        LET s == call.final_score IN
        /\ FloatLt(s, 200) => call.value = "simple"
        /\ (~FloatLt(s, 200) /\ FloatLt(s, 500)) => call.value = "medium"
        /\ (~FloatLt(s, 500) /\ FloatLt(s, 800)) => call.value = "complex"
        /\ ~FloatLt(s, 800) => call.value = "specialized"
        /\ \A x \in ScoreGrid :
              /\ ScoreLeq(x, s) => LevelRank(ScoreToLevel(x)) <= LevelRank(call.value)
              /\ ScoreLeq(s, x) => LevelRank(call.value) <= LevelRank(ScoreToLevel(x))

\* An analysis whose final score is exactly 0.5.
C7_Witness ==
    AnalyzeCall /\ call.t = "return" /\ call.final_score = Score(500, 0)
    /\ call.value = "complex"

\* C8: a route_request given a max_budget that every generated candidate
\* exceeds, or that generated no candidate, returns the fallback decision on
\* the local provider (cost 0, confidence 0.5) when the local client exists.
C8_FallbackWhenNothingInBudget ==
    (/\ RouteCall /\ call.max_budget # None /\ router.ollama_client
     /\ \A i \in DOMAIN call.generated : ~InBudget(call.generated[i]))
    => /\ call.t = "return"
       /\ call.value.provider = "ollama_mistral"
       /\ NumEq(call.value.estimated_cost, PyInt(0))
       /\ call.value.confidence = 50

\* Availability as the specification defines it: the backend's connectivity or
\* credentials were initialised at startup.
ProviderAvailable(p) ==
    CASE p = "ollama_mistral" -> router.ollama_available /\ router.ollama_client
      [] p \in {"openai_gpt_3.5_turbo", "openai_gpt_4"} -> router.openai_client
      [] p = "anthropic_claude_3_haiku" -> router.anthropic_client

\* C9: every decision route_request returns names a provider that is available:
\* the local one only if its startup probe succeeded, a cloud one only if its
\* key is set.
C9_DecisionProviderAvailable ==
    (RouteCall /\ call.t = "return") => ProviderAvailable(call.value.provider)

RECURSIVE SumTokens(_)
SumTokens(log) == IF log = <<>> THEN 0 ELSE log[1].tokens + SumTokens(Tail(log))

RECURSIVE SumCost(_)
SumCost(log) == IF log = <<>> THEN 0 ELSE log[1].cost + SumCost(Tail(log))

LocalRecords(log) == { i \in DOMAIN log : log[i].decision_provider = "ollama_mistral" }

\* C10: after any sequence of _track_execution calls on an agent, total_tokens
\* and total_cost are the sums of the recorded actual_tokens and actual_cost,
\* ollama_calls counts the records whose decision is on the local provider,
\* commercial_calls the others, and the two add up to the number of records.
C10_TotalsAreSums ==
    \A a \in Agents :
        agents[a] # None =>
            LET m == agents[a].execution_metrics
                log == recorded[a]
            IN  /\ m.total_tokens.v = SumTokens(log)
                /\ Scaled(m.total_cost, 8) = SumCost(log)
                /\ m.ollama_calls = Cardinality(LocalRecords(log))
                /\ m.commercial_calls = Len(log) - Cardinality(LocalRecords(log))
                /\ m.ollama_calls + m.commercial_calls = Len(log)

\* An agent with a local and a paid record and tokens counted.
C10_Witness ==
    \E a \in Agents :
        /\ agents[a] # None
        /\ Len(recorded[a]) >= 2
        /\ LocalRecords(recorded[a]) # {}
        /\ LocalRecords(recorded[a]) # DOMAIN recorded[a]
        /\ agents[a].execution_metrics.total_tokens.v > 0

\* C15: for tier SIMPLE with the local provider available (probe succeeded,
\* client constructed), route_request returns the local provider with
\* estimated_cost 0 and confidence 0.9, for every max_budget and quality
\* preference.
C15_SimpleTierGoesLocal ==
    (/\ RouteCall /\ call.complexity = "simple"
     /\ router.ollama_available /\ router.ollama_client)
    => /\ call.t = "return"
       /\ call.value.provider = "ollama_mistral"
       /\ NumEq(call.value.estimated_cost, PyInt(0))
       /\ call.value.confidence = 90

\* The prompt of scenario B: design, algorithm, optimize and nothing else scored.
ThreeComplexKeywords ==
    [len |-> 0, complex |-> 3, simple |-> 0, code |-> FALSE, creative |-> FALSE,
     words |-> 500]

\* C16: for a prompt whose scored features are exactly three complexity
\* keywords, with the local model available and the classification call timing
\* out, analyze_complexity returns COMPLEX or SPECIALIZED.
C16_ThreeKeywordsAtLeastComplex ==
    (/\ AnalyzeCall /\ [call.prompt EXCEPT !.words = 500] = ThreeComplexKeywords
     /\ router.ollama_available /\ call.reply.kind = "timeout")
    => /\ call.t = "return"
       /\ call.value \in {"complex", "specialized"}

TokenEstimates == { PyMul(PyInt(w), PyFloat(13, 1)) : w \in {0, 500} }

\* C17: for tier SPECIALIZED the candidates generated are those of tier COMPLEX
\* under the same clients and token estimate, and with a cloud client and no
\* budget limit a SPECIALIZED request is routed to a cloud provider.
C17_SpecializedAsComplex ==
    (RouteCall /\ call.complexity = "specialized") =>
        /\ \A q \in QualityPreference, tokens \in TokenEstimates :
              generate_routing_options(router, "specialized", tokens, q)
                = generate_routing_options(router, "complex", tokens, q)
        /\ ((router.openai_client \/ router.anthropic_client) /\ call.max_budget = None)
              => /\ call.t = "return"
                 /\ call.value.provider # "ollama_mistral"

\* The classification reply's score after the clamp to [0, 1], 0.5 without a number.
ModelScore(reply) ==
    IF reply.number = NoNumber THEN 500 ELSE Max(0, Min(1000, reply.number))

\* C20: when the classification call is made and answers, the final score is
\* 0.4 x heuristic + 0.6 x model score (clamped to [0, 1]; 0.5 without a
\* number); when it fails the final score is the heuristic score and
\* analyze_complexity still returns.
C20_BlendOrHeuristic ==
    (AnalyzeCall /\ call.llm_called) =>
        /\ call.t = "return"
        /\ call.reply.kind = "text" =>
              /\ ~call.llm_failed
              /\ 10 * call.final_score.n
                   = 4 * call.heuristic_score.n + 6 * ModelScore(call.reply)
        /\ call.reply.kind # "text" =>
              /\ call.llm_failed
              /\ call.final_score = call.heuristic_score

\* A classification reply above 1, clamped, that moves the score.
C20_Witness ==
    /\ AnalyzeCall /\ call.llm_called /\ call.reply.kind = "text"
    /\ call.reply.number = 7000
    /\ call.final_score.n # call.heuristic_score.n

\* What one recorded call saves against the GPT-4 price, in 1e-8 $.
RecordSavings(rec) ==
    rec.tokens * (Scaled(pricing["openai_gpt_4"], 8) \div 1000) - rec.cost

RECURSIVE SumSavings(_)
SumSavings(log) ==
    IF log = <<>> THEN 0 ELSE RecordSavings(log[1]) + SumSavings(Tail(log))

\* C11: after any sequence of _track_execution calls the cumulative savings
\* are the sum over the calls of actual_tokens / 1000 x 0.03 - actual_cost.
C11_SavingsAreSums ==
    \A a \in Agents :
        agents[a] # None =>
            Scaled(agents[a].execution_metrics.savings, 8) = SumSavings(recorded[a])

SummaryCall == call.op = "get_cost_summary"

CallsBefore == call.before.ollama_calls + call.before.commercial_calls

\* C12, with the percentage as the code returns it: get_cost_summary returns
\* the no-data result on a tracker without calls and never raises; with calls
\* recorded, total_calls is free + paid calls (the number of records), the
\* free-call percentage is 100 x free / total_calls rounded to the nearest
\* tenth, and the average cost is total_cost / total_calls.
C12_SummaryRounded ==
    SummaryCall =>
        /\ call.t = "return"
        /\ IF CallsBefore = 0
           THEN call.value = [message |-> "No tasks executed yet"]
           ELSE /\ call.value.total_calls = CallsBefore
                /\ call.value.total_calls = Len(recorded[call.agent])
                /\ LET off == call.value.ollama_percentage * CallsBefore
                                - 1000 * call.before.ollama_calls
                   IN  2 * off <= CallsBefore /\ 0 - 2 * off <= CallsBefore
                /\ Scaled(call.value.average_cost_per_call, 9) * CallsBefore
                     = Scaled(call.before.total_cost, 9)

\* A summary of three calls, one of them free: 33.3 percent.
C12_Witness ==
    /\ SummaryCall /\ CallsBefore = 3 /\ call.before.ollama_calls = 1
    /\ call.value.ollama_percentage = 333

\* C12 as stated: the free-call percentage is exactly 100 x free / total_calls.
C12_SummaryExactPercent ==
    (SummaryCall /\ CallsBefore > 0) =>
        call.value.ollama_percentage * CallsBefore = 1000 * call.before.ollama_calls

\* C13: get_cost_summary leaves execution_metrics as it was, and a second call
\* with no record in between returns what the first returned.
C13_SummaryReadOnly ==
    SummaryCall =>
        /\ agents[call.agent].execution_metrics = call.before
        /\ get_cost_summary(agents[call.agent].execution_metrics).value = call.value

\* A summary of a tracker that has counted calls and tokens.
C13_Witness ==
    /\ SummaryCall /\ CallsBefore > 0 /\ call.before.total_tokens.v > 0
    /\ call.value.total_tokens = call.before.total_tokens

\* C14: the stored task history holds the most recent records, at most
\* HistoryCap of them, in recording order.
C14_HistoryIsRecentRecords ==
    \A a \in Agents :
        agents[a] # None =>
            LET h == agents[a].execution_metrics.task_history
                log == recorded[a]
            IN  /\ Len(h) = Min(HistoryCap, Len(log))
                /\ \A i \in DOMAIN h : h[i].tokens.v = log[Len(log) - Len(h) + i].tokens

CrewCall == call.op = "execute_with_tracking"

\* C18: when a task's execute_request returned success = False, execute_task
\* returned the task-level failure message, not the result's content, and the
\* crew's report is not marked success = True.
C18_FailedTaskNotReportedAsSuccess ==
    CrewCall =>
        /\ call.t = "return"
        /\ \A i \in DOMAIN call.tasks :
              (call.tasks[i].executed /\ ~call.tasks[i].result.success) =>
                  /\ call.tasks[i].output.text = "Task execution failed"
                  /\ ~call.value.success

\* An agent's totals and counters are the sums and counts over its own calls.
OwnTotals(a) ==
    LET m == agents[a].execution_metrics
        log == recorded[a]
    IN  /\ m.total_tokens.v = SumTokens(log)
        /\ Scaled(m.total_cost, 8) = SumCost(log)
        /\ m.ollama_calls + m.commercial_calls = Len(log)

\* C19: with the execute_task calls of two agents interleaved step by step, a
\* step changes the execution_metrics (totals, counters, savings, history) of
\* an agent only when it records a call of that agent, and each agent's totals
\* are the sums over its own calls.
C19_TrackersNotShared ==
    /\ [](\A a \in Agents : agents[a] # None => OwnTotals(a))
    /\ [][\A a \in Agents :
            (agents[a] # None /\ recorded'[a] = recorded[a])
                => agents'[a].execution_metrics = agents[a].execution_metrics]_vars

\* Agent a1 has recorded a call while agent a2 is in the middle of its
\* execute_task, and a2's tracker is as it was created.
C19_Witness ==
    /\ agents["a1"] # None /\ agents["a2"] # None
    /\ Len(recorded["a1"]) = 1 /\ agents["a1"].execution_metrics.ollama_calls = 1
    /\ agents["a2"].pc = "executed"
    /\ agents["a2"].execution_metrics = NewMetrics

\* (w * 1.3 / 1000) x the provider's price: the estimate for a prompt of w words.
EstimateFor(provider, w) ==
    Decimal(13 * w * pricing[provider].v, pricing[provider].e + 4)

CostAsClaimed(opt) ==
    /\ NumEq(opt.estimated_cost, EstimateFor(opt.provider, call.words))
    /\ opt.estimated_cost.v >= 0
    /\ opt.provider = "ollama_mistral" => opt.estimated_cost.v = 0

\* C21: the token estimate is the prompt's word count x 1.3; every candidate's
\* and every returned decision's estimated_cost is token estimate / 1000 x the
\* provider's price, at least 0 and 0 for the local provider; and computing it
\* never makes route_request fail.
C21_EstimatedCostFormula ==
    RouteCall =>
        /\ call.exc # "TypeError"
        /\ call.estimated_tokens = PyFloat(13 * call.words, 1)
        /\ \A i \in DOMAIN call.generated : CostAsClaimed(call.generated[i])
        /\ call.t = "return" => CostAsClaimed(call.value)

\* The budget lies between the alternate vendor's estimate and the high-tier one's.
BetweenAlternateAndHighTier ==
    /\ call.max_budget # None
    /\ NumLeq(EstimateFor("anthropic_claude_3_haiku", call.words), call.max_budget)
    /\ ~NumLeq(EstimateFor("openai_gpt_4", call.words), call.max_budget)

\* C22: route_request returns the first generated candidate, in generation
\* order, that the budget filter keeps: a later candidate is returned only if
\* every earlier one exceeds max_budget, and for tier COMPLEX with both cloud
\* vendors and a budget between the alternate vendor's cost and the high-tier
\* model's the alternate vendor is returned.
C22_FirstSurvivorSelected ==
    RouteCall =>
        /\ (call.t = "return" /\ call.max_budget = None /\ call.generated # <<>>)
              => call.value = call.generated[1]
        /\ (call.t = "return" /\ call.max_budget # None) =>
              \A i \in DOMAIN call.generated :
                  call.generated[i] = call.value =>
                      \A j \in 1..(i - 1) : ~InBudget(call.generated[j])
        /\ (/\ call.complexity = "complex"
            /\ router.openai_client /\ router.anthropic_client
            /\ BetweenAlternateAndHighTier)
              => /\ call.t = "return"
                 /\ call.value.provider = "anthropic_claude_3_haiku"

\* The providers and confidences of a candidate list, in order.
Shape(options) ==
    [i \in DOMAIN options |-> <<options[i].provider, options[i].confidence>>]

When(cond, provider, confidence) ==
    IF cond THEN << <<provider, confidence>> >> ELSE <<>>

\* C23: for tier MEDIUM the candidates are the local model (confidence 0.7),
\* when the preference is fast and local is available, followed by the low-tier
\* cloud model (confidence 0.9) when it is available; the local model is no
\* candidate under balanced or premium.
C23_MediumCandidates ==
    (RouteCall /\ call.complexity = "medium") =>
        /\ call.exc # "TypeError"
        /\ Shape(call.generated)
             = When(call.preferred_quality = "fast" /\ ProviderAvailable("ollama_mistral"),
                    "ollama_mistral", 70)
               \o When(router.openai_client, "openai_gpt_3.5_turbo", 90)
        /\ call.preferred_quality # "fast" =>
              \A i \in DOMAIN call.generated :
                  call.generated[i].provider # "ollama_mistral"

\* C24: for tier COMPLEX the candidates are the high-tier cloud model
\* (confidence 0.95), if its vendor is available, then the alternate vendor
\* (confidence 0.9), if available; the local model is no candidate and is
\* returned only as the fallback (confidence 0.5).
C24_ComplexCandidates ==
    (RouteCall /\ call.complexity = "complex") =>
        /\ call.exc # "TypeError"
        /\ Shape(call.generated)
             = When(router.openai_client, "openai_gpt_4", 95)
               \o When(router.anthropic_client, "anthropic_claude_3_haiku", 90)
        /\ \A i \in DOMAIN call.generated :
              call.generated[i].provider # "ollama_mistral"
        /\ (call.t = "return" /\ call.value.provider = "ollama_mistral")
              => call.value.confidence = 50

\* C25: analyze_complexity sends the classification request exactly when the
\* startup probe found the local model and the heuristic score is above 0.3
\* (a score of exactly 0.3 sends none), and it sends at most one.
C25_ClassificationRequestIff ==
    AnalyzeCall =>
        /\ call.llm_requests <= 1
        /\ call.llm_requests = 1
              <=> (router.ollama_available /\ FloatGt(call.heuristic_score, 300))
        /\ call.heuristic_score = Score(300, 0) => call.llm_requests = 0

\* An analysis with the local model reachable and a heuristic score of exactly
\* 0.3: no request.
C25_Witness ==
    /\ AnalyzeCall /\ router.ollama_available
    /\ call.heuristic_score = Score(300, 0)
    /\ call.llm_requests = 0 /\ ~call.llm_called

\* C26: once the router is constructed, no route_request or execute_request
\* call, a failed execution included, changes an availability flag or a client
\* or constructs (and so probes) again: the provider whose call failed is as
\* available to the next routing decision as before.
C26_AvailabilityFixedAtInit ==
    [][router # None => (router' = router /\ constructed' = constructed)]_vars

\* An execute_request on the local provider has timed out, and the local
\* client and the probe's flag are still set on the one router constructed.
C26_Witness ==
    /\ ExecCall /\ call.decision.provider = "ollama_mistral"
    /\ IsRaise(call.dispatched) /\ call.dispatched.exc = "TimeoutException"
    /\ router.ollama_client /\ router.ollama_available /\ constructed = 1

\* The steps execute_task takes from one position to the next.
PipelineOrder ==
    { <<"idle", "idle">>, <<"idle", "routed">>, <<"routed", "executed">>,
      <<"routed", "idle">>, <<"executed", "idle">> }

\* C27: an execute_task takes one routing decision, then executes that
\* decision at most once, the result coming from the decision's provider (no
\* second try, no other provider), then records that decision and result at
\* most once; nothing is recorded that was not executed just before.
C27_PipelineOnceInOrder ==
    [][\A a \in Agents :
          agents[a] # None =>
            /\ agents'[a].pc # agents[a].pc => <<agents[a].pc, agents'[a].pc>> \in PipelineOrder
            /\ agents'[a].decision \notin {agents[a].decision, None} =>
                  agents[a].pc = "idle" /\ agents'[a].pc = "routed"
            /\ agents'[a].result \notin {agents[a].result, None} =>
                  /\ agents[a].pc = "routed" /\ agents'[a].pc = "executed"
                  /\ agents'[a].decision = agents[a].decision
                  /\ agents'[a].result.provider = agents[a].decision.provider
            /\ recorded'[a] # recorded[a] =>
                  /\ agents[a].pc = "executed" /\ agents'[a].pc = "idle"
                  /\ recorded'[a] = Append(recorded[a],
                                           Recorded(agents[a].decision, agents[a].result))]_vars

\* Agent a1 has been through two tasks, each routed, executed and recorded.
C27_Witness ==
    /\ agents["a1"] # None /\ agents["a1"].pc = "idle"
    /\ Len(recorded["a1"]) = 2
    /\ agents["a1"].execution_metrics.ollama_calls = 2

\* C28: at most one router is ever constructed, and with it one startup probe
\* made, and every call of get_intelligent_router, first calls side by side
\* included, returns that one instance.
C28_OneRouterInstance ==
    /\ constructed <= 1
    /\ \A x, y \in Callers :
          (getter[x].got # 0 /\ getter[y].got # 0) => getter[x].got = getter[y].got

\* C29: execute_with_tracking starts no task at a team total_cost that has
\* reached max_team_budget; the tasks it runs are the first of the list, in
\* order; it stops before a task only because the budget is reached; and it
\* returns a report of the tasks run.
C29_NoTaskStartedOverBudget ==
    CrewCall =>
        /\ call.t = "return"
        /\ Len(call.tasks) <= Len(crew.agents)
        /\ \A i \in DOMAIN call.tasks :
              /\ call.tasks[i].agent = crew.agents[i]
              /\ ~NumLeq(crew.max_team_budget, call.tasks[i].team_cost_before)
        /\ Len(call.tasks) < Len(crew.agents) =>
              NumLeq(crew.max_team_budget, crew.team_metrics.total_cost)
        /\ Len(call.value.result) = Len(call.tasks)

\* A run of a crew of two that ran its first task and skipped the second.
C29_Witness ==
    /\ CrewCall /\ Len(crew.agents) = 2 /\ Len(call.tasks) = 1
    /\ call.t = "return"

RECURSIVE SumOverAgents(_, _)
SumOverAgents(members, field) ==
    IF members = <<>> THEN 0
    ELSE Scaled(agents[members[1]].execution_metrics[field], 8)
         + SumOverAgents(Tail(members), field)

====
